---- MODULE Spec2Model ----
(***************************************************************************)
(* Model of src/src/example.py: a Prometheus-instrumented scrape loop.     *)
(*                                                                         *)
(* The program is one thread running main(): it starts the exporter, then  *)
(* loops forever over a fixed list of URLs calling                         *)
(* WebScraper.scrape_page(url), and sleeps 60 s after every round.  The    *)
(* exporter's request handler runs on its own thread and reads the metric  *)
(* values.                                                                 *)
(*                                                                         *)
(* Time is counted in ticks of a tenth of a second.  The calls made inside *)
(* the timed block (session.get, BeautifulSoup, time.sleep) are the        *)
(* program's inputs: each takes some ticks and either returns or raises.   *)
(* A raised exception is either an instance of Exception (what requests    *)
(* and bs4 raise) or a BaseException that is no Exception                  *)
(* (KeyboardInterrupt, SystemExit), which "except Exception" does not      *)
(* catch.  The metric operations inc/dec/observe and print are steps that  *)
(* do not raise.                                                           *)
(***************************************************************************)
EXTENDS Integers, Sequences, FiniteSets, TLC

\* ---------------------------------------------------------------- bounds
\* Rounds of the "while True" loop that the model explores.
MaxRounds == 2
\* Longest time a session.get call takes, in ticks.
MaxFetch == 1
\* Longest time the BeautifulSoup constructor takes, in ticks.
MaxParse == 0

\* ------------------------------------------------------- program constants
\* random.uniform(0.5, 2), in ticks of 0.1 s
DelayMin == 5
DelayMax == 20
\* start_http_server(8000)
Port == 8000

\* The list literal of main().
URLS == <<"http://example.com", "http://example.org", "http://example.net">>

FetchTicks == 0..MaxFetch
ParseTicks == 0..MaxParse
\* The values random.uniform(0.5, 2) can take, in ticks.
DelayTicks == DelayMin..DelayMax

\* What a call can do: return, raise an Exception, raise a BaseException
\* that is not an Exception.
NoExc == "none"
ExcException == "Exception"
ExcBase == "BaseException"

VARIABLES
  pc,               \* position of the main thread
  listening,        \* port the exporter listens on, 0 before start_http_server
  stdout,           \* last line printed, and the number of lines printed
  urls,             \* main's local list
  idx,              \* position of the for loop in urls (1-based)
  round,            \* number of the current round of the while loop
  url,              \* argument of the current scrape_page call
  SCRAPES_TOTAL,    \* Counter
  SCRAPE_ERRORS,    \* Counter
  SCRAPE_DURATION,  \* Summary: [count], the number of observations
  ACTIVE_SCRAPERS,  \* Gauge
  elapsed,          \* ticks since Timer.__enter__ of the current attempt
  fetched,          \* ticks the current attempt's session.get took
  slept,            \* ticks the current attempt's time.sleep took, -1: not run
  exc,              \* exception raised by the current attempt's block
  ret,              \* value scrape_page returns: "none", "True", "False"
  uncaught,         \* exception that reached the top of main and ended the process
  lastObs,          \* value the current attempt observed into SCRAPE_DURATION, -1: none yet
                    \* (the Summary's sum of all observations is not kept)
  pre,              \* metric values when the current scrape_page call began
  ev,               \* metric updates and prints of the current attempt, in order
  visited,          \* urls attempted so far in the current round
  seen              \* last answer of the exporter: gauge value, and whether an attempt was in flight

vars == <<pc, listening, stdout, urls, idx, round, url, SCRAPES_TOTAL,
          SCRAPE_ERRORS, SCRAPE_DURATION, ACTIVE_SCRAPERS, elapsed, fetched,
          slept, exc, ret, uncaught, lastObs, pre, ev, visited, seen>>

metrics == <<SCRAPES_TOTAL, SCRAPE_ERRORS, SCRAPE_DURATION, ACTIVE_SCRAPERS>>
attempt == <<elapsed, fetched, slept, exc, ret>>
loopvars == <<urls, idx, round, url, visited>>

\* max(default_timer() - self._start, 0) of Timer.__exit__
Max(a, b) == IF a >= b THEN a ELSE b

\* Mutant of Handles: the clause names a class the exception is no instance of.
HandlesNothing(e) == FALSE

\* "except Exception": the clause handles e iff isinstance(e, Exception)
Handles(e) == e = ExcException

\* The snapshot of the metrics taken when scrape_page is entered.
Snapshot == [scrapes |-> SCRAPES_TOTAL, errors |-> SCRAPE_ERRORS,
             count |-> SCRAPE_DURATION.count, active |-> ACTIVE_SCRAPERS]

Init ==
  /\ pc = "start"
  /\ listening = 0
  /\ stdout = [line |-> <<>>, n |-> 0]
  /\ urls = URLS
  /\ idx = 1
  /\ round = 1
  /\ url = ""
  /\ SCRAPES_TOTAL = 0
  /\ SCRAPE_ERRORS = 0
  /\ SCRAPE_DURATION = [count |-> 0]
  /\ ACTIVE_SCRAPERS = 0
  /\ elapsed = 0
  /\ fetched = 0
  /\ slept = -1
  /\ exc = NoExc
  /\ ret = "none"
  /\ uncaught = NoExc
  /\ lastObs = -1
  /\ pre = [scrapes |-> 0, errors |-> 0, count |-> 0, active |-> 0]
  /\ ev = <<>>
  /\ visited = <<>>
  /\ seen = [active |-> 0, inflight |-> FALSE]

\* main, lines 41-53: start the exporter, print, build the scraper and the list
StartServer ==
  /\ pc = "start"
  /\ listening' = Port
  /\ stdout' = [line |-> <<"started", Port>>, n |-> stdout.n + 1]
  /\ pc' = "for"
  /\ UNCHANGED <<metrics, attempt, loopvars, uncaught, lastObs, pre, ev, seen>>

\* main, lines 57-58: the for loop takes the next url and calls scrape_page
ForNext ==
  /\ pc = "for"
  /\ idx <= Len(urls)
  /\ url' = urls[idx]
  /\ visited' = Append(visited, urls[idx])
  /\ pre' = Snapshot
  /\ ev' = <<>>
  /\ elapsed' = 0
  /\ fetched' = 0
  /\ slept' = -1
  /\ exc' = NoExc
  /\ ret' = "none"
  /\ lastObs' = -1
  /\ pc' = "try"
  /\ UNCHANGED <<metrics, listening, uncaught, stdout, urls, idx, round, seen>>

\* Mutant of ForDone: the loop is left one url early.
ForDoneEarly ==
  /\ pc = "for"
  /\ idx >= Len(urls)
  /\ pc' = "pause"
  /\ UNCHANGED <<metrics, attempt, loopvars, listening, uncaught, stdout, lastObs, pre, ev, seen>>

\* main, line 57 to 59: the for loop is exhausted
ForDone ==
  /\ pc = "for"
  /\ idx > Len(urls)
  /\ pc' = "pause"
  /\ UNCHANGED <<metrics, attempt, loopvars, listening, uncaught, stdout, lastObs, pre, ev, seen>>

\* scrape_page, line 20
ActiveInc ==
  /\ pc = "try"
  /\ ACTIVE_SCRAPERS' = ACTIVE_SCRAPERS + 1
  /\ ev' = Append(ev, "active.inc")
  /\ pc' = "with"
  /\ UNCHANGED <<SCRAPES_TOTAL, SCRAPE_ERRORS, SCRAPE_DURATION, attempt, loopvars,
                 listening, uncaught, stdout, lastObs, pre, seen>>

\* scrape_page, line 22: Timer.__enter__ takes the start time
TimerEnter ==
  /\ pc = "with"
  /\ elapsed' = 0
  /\ pc' = "get"
  /\ UNCHANGED <<metrics, fetched, slept, exc, ret, loopvars, listening, uncaught, stdout,
                 lastObs, pre, ev, seen>>

\* scrape_page, line 23: session.get returns or raises after t ticks
Get ==
  /\ pc = "get"
  /\ \E t \in FetchTicks, e \in {NoExc, ExcException, ExcBase} :
       /\ elapsed' = elapsed + t
       /\ fetched' = t
       /\ exc' = e
       /\ pc' = IF e = NoExc THEN "parse" ELSE "exit"
  /\ UNCHANGED <<metrics, slept, ret, loopvars, listening, uncaught, stdout, lastObs, pre,
                 ev, seen>>

\* scrape_page, line 24: BeautifulSoup(...) returns or raises after t ticks
Parse ==
  /\ pc = "parse"
  /\ \E t \in ParseTicks, e \in {NoExc, ExcException, ExcBase} :
       /\ elapsed' = elapsed + t
       /\ exc' = e
       /\ pc' = IF e = NoExc THEN "sleep" ELSE "exit"
  /\ UNCHANGED <<metrics, fetched, slept, ret, loopvars, listening, uncaught, stdout,
                 lastObs, pre, ev, seen>>

\* Mutant of SimSleep: the delay is drawn from [0, 2].
SimSleepNoFloor ==
  /\ pc = "sleep"
  /\ \E d \in 0..DelayMax :
       /\ elapsed' = elapsed + d
       /\ slept' = d
       /\ exc' = NoExc
  /\ pc' = "exit"
  /\ UNCHANGED <<metrics, fetched, ret, loopvars, listening, uncaught, stdout, lastObs,
                 pre, ev, seen>>

\* scrape_page, line 26: time.sleep(random.uniform(0.5, 2)) runs to its end,
\* or is cut short after t <= d ticks by a KeyboardInterrupt
SimSleep ==
  /\ pc = "sleep"
  /\ \E d \in DelayTicks :
       \/ /\ elapsed' = elapsed + d
          /\ slept' = d
          /\ exc' = NoExc
       \/ /\ \E t \in {0, d} :
               /\ elapsed' = elapsed + t
               /\ slept' = t
          /\ exc' = ExcBase
  /\ pc' = "exit"
  /\ UNCHANGED <<metrics, fetched, ret, loopvars, listening, uncaught, stdout, lastObs,
                 pre, ev, seen>>

\* Mutant of TimerExit: the observation is made after the block, not by a
\* context manager, so a block that raises is not observed.
TimerExitSkipsOnError ==
  /\ pc = "exit"
  /\ IF exc = NoExc
       THEN /\ SCRAPE_DURATION' = [count |-> SCRAPE_DURATION.count + 1]
            /\ lastObs' = Max(elapsed, 0)
            /\ ev' = Append(ev, "duration.observe")
       ELSE UNCHANGED <<SCRAPE_DURATION, lastObs, ev>>
  /\ pc' = IF exc = NoExc THEN "success"
           ELSE IF Handles(exc) THEN "except" ELSE "finally"
  /\ UNCHANGED <<SCRAPES_TOTAL, SCRAPE_ERRORS, ACTIVE_SCRAPERS, attempt, loopvars,
                 listening, uncaught, stdout, pre, seen>>

\* Mutant of TimerExit: the block is timed twice (the with statement and a
\* decorator on the method), so every attempt is observed twice.
TimerExitObservesTwice ==
  /\ pc = "exit"
  /\ SCRAPE_DURATION' = [count |-> SCRAPE_DURATION.count + 2]
  /\ lastObs' = Max(elapsed, 0)
  /\ ev' = Append(ev, "duration.observe")
  /\ pc' = IF exc = NoExc THEN "success"
           ELSE IF Handles(exc) THEN "except" ELSE "finally"
  /\ UNCHANGED <<SCRAPES_TOTAL, SCRAPE_ERRORS, ACTIVE_SCRAPERS, attempt, loopvars,
                 listening, uncaught, stdout, pre, seen>>

\* Mutant of TimerExit: SCRAPES_TOTAL.inc() stands inside the with block, so
\* a page is counted before its duration is observed.
TimerExitCountsFirst ==
  /\ pc = "exit"
  /\ SCRAPE_DURATION' = [count |-> SCRAPE_DURATION.count + 1]
  /\ lastObs' = Max(elapsed, 0)
  /\ IF exc = NoExc
       THEN /\ SCRAPES_TOTAL' = SCRAPES_TOTAL + 1
            /\ ret' = "True"
            /\ ev' = ev \o <<"scrapes.inc", "duration.observe">>
       ELSE /\ UNCHANGED <<SCRAPES_TOTAL, ret>>
            /\ ev' = Append(ev, "duration.observe")
  /\ pc' = IF exc = NoExc THEN "finally"
           ELSE IF Handles(exc) THEN "except" ELSE "finally"
  /\ UNCHANGED <<SCRAPE_ERRORS, ACTIVE_SCRAPERS, elapsed, fetched, slept, exc,
                 loopvars, listening, uncaught, stdout, pre, seen>>

\* scrape_page, line 22: Timer.__exit__ observes the elapsed time, whether the
\* block returned or raised, and lets the exception go on
TimerExit ==
  /\ pc = "exit"
  /\ SCRAPE_DURATION' = [count |-> SCRAPE_DURATION.count + 1]
  /\ lastObs' = Max(elapsed, 0)
  /\ ev' = Append(ev, "duration.observe")
  /\ pc' = IF exc = NoExc THEN "success"
           ELSE IF Handles(exc) THEN "except" ELSE "finally"
  /\ UNCHANGED <<SCRAPES_TOTAL, SCRAPE_ERRORS, ACTIVE_SCRAPERS, attempt, loopvars,
                 listening, uncaught, stdout, pre, seen>>

\* scrape_page, lines 28-29: count the page; "return True" waits for finally
ScrapesInc ==
  /\ pc = "success"
  /\ SCRAPES_TOTAL' = SCRAPES_TOTAL + 1
  /\ ret' = "True"
  /\ ev' = Append(ev, "scrapes.inc")
  /\ pc' = "finally"
  /\ UNCHANGED <<SCRAPE_ERRORS, SCRAPE_DURATION, ACTIVE_SCRAPERS, elapsed, fetched,
                 slept, exc, loopvars, listening, uncaught, stdout, lastObs, pre, seen>>

\* Mutant of ErrorsInc: the except clause increments the wrong counter.
ErrorsIncWrongCounter ==
  /\ pc = "except"
  /\ SCRAPES_TOTAL' = SCRAPES_TOTAL + 1
  /\ ev' = Append(ev, "errors.inc")
  /\ pc' = "print"
  /\ UNCHANGED <<SCRAPE_ERRORS, SCRAPE_DURATION, ACTIVE_SCRAPERS, attempt, loopvars,
                 listening, uncaught, stdout, lastObs, pre, seen>>

\* scrape_page, lines 31-32: the except clause counts the error
ErrorsInc ==
  /\ pc = "except"
  /\ SCRAPE_ERRORS' = SCRAPE_ERRORS + 1
  /\ ev' = Append(ev, "errors.inc")
  /\ pc' = "print"
  /\ UNCHANGED <<SCRAPES_TOTAL, SCRAPE_DURATION, ACTIVE_SCRAPERS, attempt, loopvars,
                 listening, uncaught, stdout, lastObs, pre, seen>>

\* scrape_page, lines 33-34: print the error line; "return False" waits for finally
PrintError ==
  /\ pc = "print"
  /\ stdout' = [line |-> <<"Error scraping", url, exc>>, n |-> stdout.n + 1]
  /\ ret' = "False"
  /\ ev' = Append(ev, "print")
  /\ pc' = "finally"
  /\ UNCHANGED <<metrics, elapsed, fetched, slept, exc, loopvars, listening,
                 uncaught, lastObs, pre, seen>>

\* Mutant of Finally: the decrement stands after the try statement, not in
\* a finally clause, so an exception that no clause handles skips it.
FinallyOnlyOnReturn ==
  /\ pc = "finally"
  /\ IF ret = "none"
       THEN UNCHANGED <<ACTIVE_SCRAPERS, ev>>
       ELSE /\ ACTIVE_SCRAPERS' = ACTIVE_SCRAPERS - 1
            /\ ev' = Append(ev, "active.dec")
  /\ pc' = IF ret = "none" THEN "raised" ELSE "returned"
  /\ UNCHANGED <<SCRAPES_TOTAL, SCRAPE_ERRORS, SCRAPE_DURATION, attempt, loopvars,
                 listening, uncaught, stdout, lastObs, pre, seen>>

\* Mutant of Finally: the except clause decrements the gauge too, so a
\* failed attempt decrements it twice.
FinallyDecTwiceOnError ==
  /\ pc = "finally"
  /\ ACTIVE_SCRAPERS' = ACTIVE_SCRAPERS - (IF ret = "False" THEN 2 ELSE 1)
  /\ ev' = Append(ev, "active.dec")
  /\ pc' = IF ret = "none" THEN "raised" ELSE "returned"
  /\ UNCHANGED <<SCRAPES_TOTAL, SCRAPE_ERRORS, SCRAPE_DURATION, attempt, loopvars,
                 listening, uncaught, stdout, lastObs, pre, seen>>

\* scrape_page, lines 36-37: the finally clause; then the pending return
\* takes place, or the exception that no clause handled goes to the caller
Finally ==
  /\ pc = "finally"
  /\ ACTIVE_SCRAPERS' = ACTIVE_SCRAPERS - 1
  /\ ev' = Append(ev, "active.dec")
  /\ pc' = IF ret = "none" THEN "raised" ELSE "returned"
  /\ UNCHANGED <<SCRAPES_TOTAL, SCRAPE_ERRORS, SCRAPE_DURATION, attempt, loopvars,
                 listening, uncaught, stdout, lastObs, pre, seen>>

\* Mutant of CallReturns: the loop branches on the result and leaves the
\* round at the first failure.
CallReturnsBreakOnFailure ==
  /\ pc = "returned"
  /\ idx' = idx + 1
  /\ pc' = IF ret = "False" THEN "pause" ELSE "for"
  /\ UNCHANGED <<metrics, attempt, urls, round, url, visited, listening, uncaught, stdout,
                 lastObs, pre, ev, seen>>

\* main, line 58: the call returned; its value is dropped and the loop goes on
CallReturns ==
  /\ pc = "returned"
  /\ idx' = idx + 1
  /\ pc' = "for"
  /\ UNCHANGED <<metrics, attempt, urls, round, url, visited, listening, uncaught, stdout,
                 lastObs, pre, ev, seen>>

\* main, line 58: the call raised; main has no handler and the process ends
CallRaises ==
  /\ pc = "raised"
  /\ uncaught' = exc
  /\ pc' = "dead"
  /\ UNCHANGED <<metrics, attempt, loopvars, listening, stdout, lastObs, pre, ev, seen>>

\* main, lines 59 and 56: time.sleep(60) ends and the next round begins
Pause ==
  /\ pc = "pause"
  /\ round < MaxRounds
  /\ round' = round + 1
  /\ idx' = 1
  /\ visited' = <<>>
  /\ pc' = "for"
  /\ UNCHANGED <<metrics, attempt, urls, url, listening, uncaught, stdout, lastObs, pre, ev, seen>>

\* main, line 59: time.sleep(60) is cut short by a KeyboardInterrupt
PauseInterrupted ==
  /\ pc = "pause"
  /\ uncaught' = ExcBase
  /\ pc' = "dead"
  /\ UNCHANGED <<metrics, attempt, loopvars, listening, stdout, lastObs, pre, ev, seen>>

\* An attempt is in flight from its gauge increment to its gauge decrement.
InFlight == pc \in {"with", "get", "parse", "sleep", "exit", "success", "except", "print", "finally"}

\* The exporter's thread answers a request with the gauge's current value.
Reader ==
  /\ listening # 0
  /\ pc # "dead"
  /\ seen' = [active |-> ACTIVE_SCRAPERS, inflight |-> InFlight]
  /\ UNCHANGED <<pc, metrics, attempt, loopvars, listening, uncaught, stdout, lastObs, pre, ev>>

\* The steps of the main thread.
Main ==
  \/ StartServer
  \/ ForNext
  \/ ForDone
  \/ ActiveInc
  \/ TimerEnter
  \/ Get
  \/ Parse
  \/ SimSleep
  \/ TimerExit
  \/ ScrapesInc
  \/ ErrorsInc
  \/ PrintError
  \/ Finally
  \/ CallReturns
  \/ CallRaises
  \/ Pause
  \/ PauseInterrupted

Next == Main \/ Reader

Spec == Init /\ [][Next]_vars

\* The main thread is never suspended for ever: a step it can take, it takes.
FairSpec == Spec /\ WF_vars(Main)

\* ------------------------------------------------------------ properties

\* The current scrape_page call has ended: it returned or it raised.
AttemptEnded == pc \in {"returned", "raised"}

\* The current attempt was ended by an exception that no clause handled.
Propagated == pc \in {"raised", "dead"} /\ ret = "none"

\* Counter changes of the current attempt.
DScrapes == SCRAPES_TOTAL - pre.scrapes
DErrors == SCRAPE_ERRORS - pre.errors
DCount == SCRAPE_DURATION.count - pre.count

\* The metric updates of an attempt, by the way it ends.
EvSuccess == <<"active.inc", "duration.observe", "scrapes.inc", "active.dec">>
EvFailure == <<"active.inc", "duration.observe", "errors.inc", "print", "active.dec">>
EvPropagated == <<"active.inc", "duration.observe", "active.dec">>

IsPrefix(a, b) == Len(a) <= Len(b) /\ SubSeq(b, 1, Len(a)) = a

\* C1, as stated: an attempt whose block returns counts one page and no error,
\* an attempt whose block raises (any exception) counts one error and no page;
\* no attempt increments both counters or neither.
C1_Original ==
  AttemptEnded =>
    /\ exc = NoExc => DScrapes = 1 /\ DErrors = 0
    /\ exc # NoExc => DScrapes = 0 /\ DErrors = 1

\* C1, amended: an attempt whose block returns counts one page and no error;
\* an attempt whose block raises an instance of Exception counts one error and
\* no page; an attempt whose block raises a BaseException that is no Exception
\* counts neither.  In no state has an attempt incremented both counters.
C1_Counters ==
  /\ DScrapes >= 0 /\ DErrors >= 0 /\ DScrapes + DErrors <= 1
  /\ AttemptEnded =>
       /\ exc = NoExc => DScrapes = 1 /\ DErrors = 0
       /\ exc = ExcException => DScrapes = 0 /\ DErrors = 1
       /\ exc = ExcBase => DScrapes = 0 /\ DErrors = 0

\* A failed attempt has returned, after an earlier successful one.
C1_Witness ==
  pc = "returned" /\ exc = ExcException /\ DErrors = 1 /\ SCRAPES_TOTAL > 0

\* C2: every attempt increments ACTIVE_SCRAPERS once, first, and decrements it
\* once, when it ends, whether it returns True, returns False or raises; after
\* the call the gauge has the value it had before the call.
C2_GaugePaired ==
  /\ InFlight => ACTIVE_SCRAPERS = pre.active + 1 /\ ev[1] = "active.inc"
  /\ AttemptEnded =>
       /\ ACTIVE_SCRAPERS = pre.active
       /\ Cardinality({i \in 1..Len(ev) : ev[i] = "active.inc"}) = 1
       /\ Cardinality({i \in 1..Len(ev) : ev[i] = "active.dec"}) = 1
       /\ ev[1] = "active.inc"
       /\ ev[Len(ev)] = "active.dec"

\* A call has raised to main and the gauge is back at its value before the call.
C2_Witness ==
  pc = "raised" /\ exc = ExcBase /\ ACTIVE_SCRAPERS = pre.active /\ Len(ev) = 3

\* C3, as stated: between attempts the number of observations is
\* SCRAPES_TOTAL + SCRAPE_ERRORS.
C3_Original ==
  ~InFlight /\ pc # "try" =>
    SCRAPE_DURATION.count = SCRAPES_TOTAL + SCRAPE_ERRORS

\* C3, amended: every attempt is observed exactly once, whether it returns
\* True, returns False or raises; the count never lags the two counters; and
\* between attempts the count is SCRAPES_TOTAL + SCRAPE_ERRORS, plus one once
\* an attempt has been ended by an exception that no clause handled.
C3_OneObservation ==
  /\ AttemptEnded => DCount = 1
  /\ SCRAPE_DURATION.count >= SCRAPES_TOTAL + SCRAPE_ERRORS
  /\ ~InFlight /\ pc # "try" =>
       SCRAPE_DURATION.count =
         SCRAPES_TOTAL + SCRAPE_ERRORS + (IF Propagated THEN 1 ELSE 0)

\* A failed attempt has returned and was observed.
C3_Witness ==
  /\ pc = "returned" /\ exc = ExcException /\ DCount = 1
  /\ SCRAPE_ERRORS > 0 /\ SCRAPES_TOTAL > 0
  /\ SCRAPE_DURATION.count = SCRAPES_TOTAL + SCRAPE_ERRORS

\* C4, as stated: every observed value is at least the delay floor plus the
\* attempt's fetch time, on the success path and on the failure paths.
C4_Original ==
  lastObs # -1 => lastObs >= DelayMin + fetched

\* C4, amended: every observed value is at least the attempt's fetch time plus
\* the time it slept.  An attempt that succeeds has slept at least the floor,
\* so its observation is at least floor + fetch time; an attempt whose fetch
\* or parse raises has not slept at all, and its observation is the time to
\* the exception only.
C4_DurationFloor ==
  lastObs # -1 =>
    /\ lastObs >= fetched + (IF slept = -1 THEN 0 ELSE slept)
    /\ exc = NoExc => slept >= DelayMin /\ lastObs >= DelayMin + fetched
    /\ exc = ExcException => slept = -1 /\ lastObs <= fetched + MaxParse

\* A failed attempt was observed with less than the floor.
C4_Witness ==
  lastObs # -1 /\ exc = ExcException /\ fetched > 0 /\ lastObs < DelayMin + fetched

\* C5, as stated: scrape_page never raises to its caller, and returns True
\* exactly when the block completed without exception.
C5_Original ==
  /\ pc # "raised"
  /\ pc = "returned" => (ret = "True" <=> exc = NoExc) /\ ret \in {"True", "False"}

\* C5, amended: scrape_page raises no instance of Exception that the block
\* raised: it returns True when the block completed, and False when the block
\* raised an instance of Exception.  A BaseException that is no Exception
\* (KeyboardInterrupt, SystemExit) is not caught: it is raised to the caller
\* after the finally clause, and no value is returned.
C5_Returns ==
  AttemptEnded =>
    /\ exc = NoExc => pc = "returned" /\ ret = "True"
    /\ exc = ExcException => pc = "returned" /\ ret = "False"
    /\ exc = ExcBase => pc = "raised" /\ ret = "none"

\* A call has raised to main.
C5_Witness ==
  pc = "raised" /\ exc = ExcBase /\ SCRAPE_ERRORS > 0

\* C6: the attempts of a round are the urls of the list, in order, one per url
\* and one at a time; the pause begins only after the last of them; a round
\* begins only when the pause of the round before it has ended; the list is
\* never changed.
C6_RoundInv ==
  /\ urls = URLS
  /\ IsPrefix(visited, urls)
  /\ pc = "for" => Len(visited) = idx - 1
  /\ (InFlight \/ pc \in {"try", "returned", "raised"}) =>
       Len(visited) = idx /\ url = urls[idx]
  /\ pc = "pause" => visited = urls
  /\ ACTIVE_SCRAPERS <= 1

C6_RoundStep ==
  /\ round' # round =>
       pc = "pause" /\ visited = urls /\ round' = round + 1 /\ visited' = <<>>
  /\ visited' # visited =>
       \/ pc = "pause" /\ visited' = <<>>
       \/ pc = "for" /\ ~InFlight /\ visited' = Append(visited, urls[Len(visited) + 1])
  /\ urls' = urls

C6_Rounds == [](C6_RoundInv) /\ [][C6_RoundStep]_vars

\* The pause of a later round has begun after all urls were attempted.
C6_Witness ==
  pc = "pause" /\ round > 1 /\ visited = urls /\ SCRAPE_ERRORS > 0

\* What the loop does when a call returns: whatever the value, it goes on with
\* the next url of the list.
C7_NoStopNoRetry ==
  pc = "returned" /\ pc' # pc => pc' = "for" /\ idx' = idx + 1 /\ round' = round

\* The process was ended by a BaseException that is no Exception.
Killed == pc = "dead" /\ uncaught = ExcBase

C8_GaugeZeroOrOne ==
  /\ ACTIVE_SCRAPERS \in {0, 1}
  /\ ACTIVE_SCRAPERS = 1 <=> InFlight
  /\ seen.active = (IF seen.inflight THEN 1 ELSE 0)

\* A request made during a later attempt was answered with 1.
C8_Witness ==
  seen.active = 1 /\ seen.inflight /\ InFlight /\ SCRAPE_DURATION.count > 0

\* C9, as stated: an attempt's updates are the gauge increment, the
\* observation, one of the page count or the error count with its error line,
\* and the gauge decrement, in this order.
C9_Original ==
  AttemptEnded => ev \in {EvSuccess, EvFailure}

\* C9, amended: the updates of an attempt are, in this order, the gauge
\* increment, the observation, then the page count (block returned), or the
\* error count and the error line naming the url (block raised an instance of
\* Exception), or nothing (block raised another BaseException), and last the
\* gauge decrement.
C9_Order ==
  /\ IsPrefix(ev, EvSuccess) \/ IsPrefix(ev, EvFailure) \/ IsPrefix(ev, EvPropagated)
  /\ AttemptEnded =>
       ev = (IF exc = NoExc THEN EvSuccess
             ELSE IF exc = ExcException THEN EvFailure ELSE EvPropagated)
  /\ AttemptEnded /\ exc = ExcException =>
       stdout.line = <<"Error scraping", url, exc>>

\* A failed attempt has made its five updates.
C9_Witness ==
  pc = "returned" /\ ev = EvFailure /\ stdout.line[2] = URLS[2]

\* C10, as stated: count - (pages + errors) is 0 or 1, and it is 0 whenever
\* the gauge is 0.
C10_Original ==
  /\ SCRAPE_DURATION.count - (SCRAPES_TOTAL + SCRAPE_ERRORS) \in {0, 1}
  /\ ACTIVE_SCRAPERS = 0 =>
       SCRAPE_DURATION.count - (SCRAPES_TOTAL + SCRAPE_ERRORS) = 0

\* C10, amended: count - (pages + errors) is 0 or 1; while the gauge is 0 it
\* is 0, except once an attempt has been ended by an exception that no clause
\* handled, when it is 1; the two counters never decrease.
C10_Inv ==
  /\ SCRAPE_DURATION.count - (SCRAPES_TOTAL + SCRAPE_ERRORS) \in {0, 1}
  /\ ACTIVE_SCRAPERS = 0 =>
       SCRAPE_DURATION.count - (SCRAPES_TOTAL + SCRAPE_ERRORS)
         = (IF Propagated THEN 1 ELSE 0)

C10_Monotone ==
  SCRAPES_TOTAL' >= SCRAPES_TOTAL /\ SCRAPE_ERRORS' >= SCRAPE_ERRORS

C10_Consistent == [](C10_Inv) /\ [][C10_Monotone]_vars

\* An attempt is observed and not yet counted, while it is in flight.
C10_Witness ==
  /\ SCRAPE_DURATION.count - (SCRAPES_TOTAL + SCRAPE_ERRORS) = 1
  /\ ACTIVE_SCRAPERS = 1 /\ pc = "except" /\ SCRAPES_TOTAL > 0

====
